---------------------------- MODULE Spec2Model ----------------------------
(***************************************************************************)
(* git-pluck (bin/git-pluck.js): the command line, the file-list parser    *)
(* and the sequential fetch-and-write run.                                 *)
(*                                                                         *)
(* JavaScript strings are sequences of one-character strings, so that      *)
(* trim, startsWith, split and the regular expressions of the source are   *)
(* computed character by character.                                        *)
(***************************************************************************)
EXTENDS Integers, Sequences, FiniteSets, TLC

VARIABLES
    argv,            \* process.argv.slice(2)
    content,         \* the text of the file-list document on disk
    lines,           \* parseRichFileList: content.split('\n')
    i,               \* parseRichFileList: index of the next line (1-based)
    result,          \* parseRichFileList: result {sections, allFiles, fileComments}
    currentSection,  \* parseRichFileList: 0 (null) or the index of the open section
    isInSection,     \* parseRichFileList: the flag of line 332
    pc,              \* position of the process
    config,          \* the configuration object
    gitBranch,       \* the branch the working tree is on
    fileList,        \* FileSynchronizer.fileList (NoFileList is null)
    stats,           \* FileSynchronizer.stats
    fi,              \* overwriteFiles: index of the next overwriteFile call
    attempts,        \* log of the overwriteFile calls, with their outcome
    written,         \* log of the files written into the working tree
    fatal,           \* the error message of the fatal error, if any
    exitCode         \* the exit code of the process (NoExit while it runs)

envVars == <<argv, content>>
parseVars == <<lines, i, result, currentSection, isInSection>>
runVars == <<pc, config, gitBranch, fileList, stats, fi, attempts, written,
             fatal, exitCode>>
vars == <<argv, content, lines, i, result, currentSection, isInSection, pc, config,
          gitBranch, fileList, stats, fi, attempts, written, fatal, exitCode>>

----------------------------------------------------------------------------
(* Bounds of the model *)

MaxLines == 4       \* lines of a document given to the parser alone
MaxRunLines == 4    \* lines of a document given to a whole run
MaxArgs == 5        \* command-line arguments

----------------------------------------------------------------------------
(* Strings *)

IsSpace(c) == c \in {" ", "\t", "\r", "\n"}

RECURSIVE TrimStart(_)
TrimStart(s) ==
    IF s = <<>> THEN s
    ELSE IF IsSpace(Head(s)) THEN TrimStart(Tail(s)) ELSE s

RECURSIVE TrimEnd(_)
TrimEnd(s) ==
    IF s = <<>> THEN s
    ELSE IF IsSpace(s[Len(s)]) THEN TrimEnd(SubSeq(s, 1, Len(s) - 1)) ELSE s

Trim(s) == TrimEnd(TrimStart(s))

StartsWith(s, p) == Len(s) >= Len(p) /\ SubSeq(s, 1, Len(p)) = p

\* the lower-case letter of each upper-case letter
UpperToLower ==
    "A" :> "a" @@ "B" :> "b" @@ "C" :> "c" @@ "D" :> "d" @@ "E" :> "e" @@
    "F" :> "f" @@ "G" :> "g" @@ "H" :> "h" @@ "I" :> "i" @@ "J" :> "j" @@
    "K" :> "k" @@ "L" :> "l" @@ "M" :> "m" @@ "N" :> "n" @@ "O" :> "o" @@
    "P" :> "p" @@ "Q" :> "q" @@ "R" :> "r" @@ "S" :> "s" @@ "T" :> "t" @@
    "U" :> "u" @@ "V" :> "v" @@ "W" :> "w" @@ "X" :> "x" @@ "Y" :> "y" @@
    "Z" :> "z"

LowerChar(c) == IF c \in DOMAIN UpperToLower THEN UpperToLower[c] ELSE c

RECURSIVE ToLowerCase(_)
ToLowerCase(s) ==
    IF s = <<>> THEN <<>> ELSE <<LowerChar(Head(s))>> \o ToLowerCase(Tail(s))

\* the least index k >= from with s[k] = c, or 0
IndexOf(s, c, from) ==
    IF \E k \in from..Len(s) : s[k] = c
    THEN CHOOSE k \in from..Len(s) : s[k] = c /\ \A j \in from..(k - 1) : s[j] # c
    ELSE 0

\* the greatest index k with s[k] = c, or 0
LastIndexOf(s, c) ==
    IF \E k \in 1..Len(s) : s[k] = c
    THEN CHOOSE k \in 1..Len(s) : s[k] = c /\ \A j \in (k + 1)..Len(s) : s[j] # c
    ELSE 0

\* content.split('\n')
RECURSIVE SplitLines(_)
SplitLines(s) ==
    LET k == IndexOf(s, "\n", 1)
    IN  IF k = 0 THEN <<s>>
        ELSE <<SubSeq(s, 1, k - 1)>> \o SplitLines(SubSeq(s, k + 1, Len(s)))

\* the text whose lines are ls
RECURSIVE JoinLines(_)
JoinLines(ls) ==
    IF ls = <<>> THEN <<>>
    ELSE IF Len(ls) = 1 THEN ls[1]
    ELSE ls[1] \o <<"\n">> \o JoinLines(Tail(ls))

----------------------------------------------------------------------------
(* FileOperations.parseRichFileList *)

FILE_EXTENSIONS == {
    <<"j", "s">>,
    <<"t", "s">>,
    <<"j", "s", "x">>,
    <<"t", "s", "x">>,
    <<"s", "v", "e", "l", "t", "e">>,
    <<"v", "u", "e">>,
    <<"c", "s", "s">>,
    <<"s", "c", "s", "s">>,
    <<"s", "a", "s", "s">>,
    <<"h", "t", "m", "l">>,
    <<"j", "s", "o", "n">>,
    <<"m", "d">>,
    <<"t", "x", "t">>,
    <<"p", "n", "g">>,
    <<"j", "p", "g">>,
    <<"j", "p", "e", "g">>,
    <<"s", "v", "g">>,
    <<"g", "i", "f">>,
    <<"i", "c", "o">>,
    <<"w", "o", "f", "f">>,
    <<"w", "o", "f", "f", "2">>,
    <<"t", "t", "f">>,
    <<"o", "t", "f">>,
    <<"e", "o", "t">>,
    <<"p", "d", "f">>,
    <<"z", "i", "p">> }

\* as SkipsLine, but a comment line is not skipped
SkipsLine_BlankOnly(t) == t = <<>>

\* lines 339 and 344: !trimmedLine, trimmedLine.startsWith('#')
SkipsLine(t) == t = <<>> \/ StartsWith(t, <<"#">>)

\* /\.(js|ts|...|zip)$/i.test(t): no extension holds a dot, so the dot the
\* expression matches is the last one of t
HasFileExtension(t) ==
    LET dot == LastIndexOf(t, ".")
    IN  dot > 0 /\ ToLowerCase(SubSeq(t, dot + 1, Len(t))) \in FILE_EXTENSIONS

\* line 349: trimmedLine.startsWith('-') || /\.(...)$/i.test(trimmedLine)
IsFilePath(t) == StartsWith(t, <<"-">>) \/ HasFileExtension(t)

\* line 354: trimmedLine.replace(/^-\s*/, '').trim()
StripBullet(t) ==
    Trim(IF StartsWith(t, <<"-">>) THEN TrimStart(Tail(t)) ELSE t)

\* line 360: processedLine.match(/^([^(]+?)\s*\(([^)]+)\)\s*$/).  The opening
\* parenthesis is the first one of the line and is not its first character, the
\* closing one is the first after it, at least one character lies between them
\* and only whitespace follows.
CommentMatch(s) ==
    LET open == IndexOf(s, "(", 1)
        close == IF open = 0 THEN 0 ELSE IndexOf(s, ")", open + 1)
    IN  IF /\ open >= 2
           /\ close >= open + 2
           /\ Trim(SubSeq(s, close + 1, Len(s))) = <<>>
        THEN [matched |-> TRUE,
              group1 |-> TrimEnd(SubSeq(s, 1, open - 1)),
              group2 |-> SubSeq(s, open + 1, close - 1)]
        ELSE [matched |-> FALSE, group1 |-> <<>>, group2 |-> <<>>]

\* lines 354-364: the path and the comment of a file-path line.  An absent
\* comment (null) and an empty one are both <<>>: line 374 tests truthiness.
ExtractEntry(t) ==
    LET processedLine == StripBullet(t)
        commentMatch == CommentMatch(processedLine)
    IN  IF commentMatch.matched
        THEN [filePath |-> Trim(commentMatch.group1),
              comment |-> Trim(commentMatch.group2)]
        ELSE [filePath |-> processedLine, comment |-> <<>>]

\* as PushFile, but a path already in the list is not pushed again
PushFile_Dedup(allFiles, filePath) ==
    IF \E k \in 1..Len(allFiles) : allFiles[k] = filePath
    THEN allFiles
    ELSE Append(allFiles, filePath)

\* line 371: result.allFiles.push(filePath)
PushFile(allFiles, filePath) == Append(allFiles, filePath)

\* as MapSet, but an entry the path already has is kept
MapSet_KeepFirst(fileComments, filePath, comment) ==
    IF \E e \in fileComments : e[1] = filePath
    THEN fileComments
    ELSE fileComments \cup {<<filePath, comment>>}

\* line 375: result.fileComments.set(filePath, comment); the Map is the set of
\* its <<key, value>> entries
MapSet(fileComments, filePath, comment) ==
    {e \in fileComments : e[1] # filePath} \cup {<<filePath, comment>>}

\* as OpensSection, but only while no section is open
OpensSection_OnlyFirst(inSection, section) == section = 0

\* as OpensSection, but every section-header line opens a section
OpensSection_Always(inSection, section) == TRUE

\* line 385: isInSection || currentSection === null
OpensSection(inSection, section) == inSection \/ section = 0

EmptyResult == [sections |-> <<>>, allFiles |-> <<>>, fileComments |-> {}]

ParserStart == [result |-> EmptyResult, currentSection |-> 0, isInSection |-> FALSE]

\* lines 335-394: the body of the loop over the lines
ProcessLine(st, line) ==
    LET trimmedLine == Trim(line)
    IN  IF SkipsLine(trimmedLine) THEN st
        ELSE IF IsFilePath(trimmedLine)
        THEN LET e == ExtractEntry(trimmedLine)
             IN  IF e.filePath = <<>> THEN st
                 ELSE [result |->
                         [sections |->
                            IF st.currentSection # 0
                            THEN [st.result.sections EXCEPT
                                    ![st.currentSection].files = Append(@, e.filePath)]
                            ELSE st.result.sections,
                          allFiles |-> PushFile(st.result.allFiles, e.filePath),
                          fileComments |->
                            IF e.comment # <<>>
                            THEN MapSet(st.result.fileComments, e.filePath, e.comment)
                            ELSE st.result.fileComments],
                       currentSection |-> st.currentSection,
                       isInSection |-> IF st.currentSection # 0 THEN TRUE
                                       ELSE st.isInSection]
        ELSE IF OpensSection(st.isInSection, st.currentSection)
        THEN [result |-> [st.result EXCEPT
                            !.sections = Append(@, [name |-> trimmedLine,
                                                    files |-> <<>>])],
              currentSection |-> Len(st.result.sections) + 1,
              isInSection |-> FALSE]
        ELSE st

RECURSIVE ParseLines(_, _)
ParseLines(st, ls) ==
    IF ls = <<>> THEN st ELSE ParseLines(ProcessLine(st, Head(ls)), Tail(ls))

\* lines 322-398: the whole function
ParseRichFileList(text) == ParseLines(ParserStart, SplitLines(text)).result

----------------------------------------------------------------------------
(* Documents *)

BlankLine == <<>>
CommentLine == <<" ", "#", " ", "c">>
HeaderA == <<"A">>
HeaderB == <<"B", " ", "B">>
PlainBinary == <<"b", ".", "P", "N", "G">>
DashFileX == <<"-", " ", "a", ".", "j", "s", " ", "(", "x", ")">>
PlainFileX == <<"a", ".", "j", "s", " ", "(", "x", ")">>
DashFileY == <<" ", "-", " ", "a", ".", "j", "s", " ", "(", "y", ")", " ">>
DashBinary == <<"-", " ", "b", ".", "P", "N", "G">>
PlainFile == <<"a", ".", "j", "s">>
DashOnly == <<"-">>

LinePool == {BlankLine, CommentLine, HeaderA, HeaderB, PlainBinary, DashFileX,
             PlainFileX, DashFileY, DashOnly}

SeqsUpTo(S, n) == UNION {[1..k -> S] : k \in 0..n}

Documents == {JoinLines(ls) : ls \in SeqsUpTo(LinePool, MaxLines)}


----------------------------------------------------------------------------
(* CLIHelper *)

DEFAULT_CONFIG == [fileListPath |-> <<>>, sourceBranch |-> <<>>,
                   targetBranch |-> <<>>, encoding |-> <<"u", "t", "f", "-", "8">>]

OptFileList == {<<"-", "f">>, <<"-", "-", "f", "i", "l", "e", "-", "l", "i", "s", "t">>}
OptSource == {<<"-", "s">>, <<"-", "-", "s", "o", "u", "r", "c", "e">>}
OptTarget == {<<"-", "t">>, <<"-", "-", "t", "a", "r", "g", "e", "t">>}
OptEncoding == {<<"-", "e">>, <<"-", "-", "e", "n", "c", "o", "d", "i", "n", "g">>}
OptHelp == {<<"-", "h">>, <<"-", "-", "h", "e", "l", "p">>}
OptVersion == {<<"-", "v">>, <<"-", "-", "v", "e", "r", "s", "i", "o", "n">>}

\* lines 70, 79, 88, 97: !nextArg, with nextArg = args[i + 1] (undefined past
\* the end; the empty string is falsy too)
NoNextArg(args, k) == k + 1 > Len(args) \/ args[k + 1] = <<>>

ArgError(msg) == [status |-> "error", config |-> DEFAULT_CONFIG, message |-> msg]

\* lines 63-126: the loop over the arguments, from index k on
RECURSIVE ParseArgumentsFrom(_, _, _)
ParseArgumentsFrom(args, k, cfg) ==
    IF k > Len(args) THEN [status |-> "ok", config |-> cfg, message |-> "none"]
    ELSE LET arg == args[k] IN
         CASE arg \in OptFileList ->
                IF NoNextArg(args, k)
                THEN ArgError("File list path is required after -f/--file-list")
                ELSE ParseArgumentsFrom(args, k + 2,
                                        [cfg EXCEPT !.fileListPath = args[k + 1]])
           [] arg \in OptSource ->
                IF NoNextArg(args, k)
                THEN ArgError("Source branch is required after -s/--source")
                ELSE ParseArgumentsFrom(args, k + 2,
                                        [cfg EXCEPT !.sourceBranch = args[k + 1]])
           [] arg \in OptTarget ->
                IF NoNextArg(args, k)
                THEN ArgError("Target branch is required after -t/--target")
                ELSE ParseArgumentsFrom(args, k + 2,
                                        [cfg EXCEPT !.targetBranch = args[k + 1]])
           [] arg \in OptEncoding ->
                IF NoNextArg(args, k)
                THEN ArgError("Encoding is required after -e/--encoding")
                ELSE ParseArgumentsFrom(args, k + 2,
                                        [cfg EXCEPT !.encoding = args[k + 1]])
           [] arg \in OptHelp \cup OptVersion ->
                [status |-> "exit0", config |-> cfg, message |-> "none"]
           [] OTHER ->
                IF StartsWith(arg, <<"-">>)
                THEN ArgError("Unknown option")
                ELSE ParseArgumentsFrom(args, k + 1,
                        IF cfg.fileListPath = DEFAULT_CONFIG.fileListPath
                        THEN [cfg EXCEPT !.fileListPath = arg]
                        ELSE cfg)

\* lines 59-129
ParseArguments(args) == ParseArgumentsFrom(args, 1, DEFAULT_CONFIG)

\* lines 203-216: the message of the error thrown, or "none"
ValidateConfig(cfg) ==
    IF cfg.fileListPath = <<>> THEN "File list path cannot be empty"
    ELSE IF cfg.sourceBranch = <<>> THEN "Source branch cannot be empty"
    ELSE IF cfg.targetBranch = <<>> THEN "Target branch cannot be empty"
    ELSE IF cfg.sourceBranch = cfg.targetBranch
    THEN "Source and target branches cannot be the same"
    ELSE "none"

----------------------------------------------------------------------------
(* GitOperations.isBinaryFile *)

BINARY_EXTENSIONS == {
    <<".", "p", "n", "g">>,
    <<".", "j", "p", "g">>,
    <<".", "j", "p", "e", "g">>,
    <<".", "g", "i", "f">>,
    <<".", "w", "e", "b", "p">>,
    <<".", "b", "m", "p">>,
    <<".", "t", "i", "f", "f">>,
    <<".", "s", "v", "g">>,
    <<".", "i", "c", "o">>,
    <<".", "w", "o", "f", "f">>,
    <<".", "w", "o", "f", "f", "2">>,
    <<".", "t", "t", "f">>,
    <<".", "o", "t", "f">>,
    <<".", "e", "o", "t">>,
    <<".", "p", "d", "f">>,
    <<".", "z", "i", "p">>,
    <<".", "t", "a", "r">>,
    <<".", "g", "z">>,
    <<".", "r", "a", "r">>,
    <<".", "7", "z">>,
    <<".", "m", "p", "3">>,
    <<".", "m", "p", "4">>,
    <<".", "w", "a", "v">>,
    <<".", "a", "v", "i">>,
    <<".", "m", "o", "v">>,
    <<".", "m", "k", "v">>,
    <<".", "e", "x", "e">>,
    <<".", "d", "l", "l">>,
    <<".", "s", "o">>,
    <<".", "d", "y", "l", "i", "b">>,
    <<".", "b", "i", "n">> }

\* path.extname: from the last dot of the last path segment on, unless there
\* is none or the segment starts with it
ExtName(p) ==
    LET base == SubSeq(p, LastIndexOf(p, "/") + 1, Len(p))
        dot == LastIndexOf(base, ".")
    IN  IF dot <= 1 THEN <<>> ELSE SubSeq(base, dot, Len(base))

\* lines 258-261
IsBinaryFile(filePath) == ToLowerCase(ExtName(filePath)) \in BINARY_EXTENSIONS

----------------------------------------------------------------------------
(* FileOperations.getFileList, FileSynchronizer *)

\* as IsEmptyList, but a list with a section counts as not empty
IsEmptyList_NoSections(parsed) ==
    Len(parsed.allFiles) = 0 /\ Len(parsed.sections) = 0

\* line 416: parsed.allFiles.length === 0
IsEmptyList(parsed) == Len(parsed.allFiles) = 0

\* the constructor, lines 498-506
EmptyStats == [filesProcessed |-> 0, filesSkipped |-> 0, binaryFiles |-> 0,
               textFiles |-> 0, errors |-> <<>>, sections |-> <<>>,
               comments |-> <<>>]

\* sectionName = null (a section's name is never empty: it is a trimmed,
\* non-empty line)
NoSection == <<>>

RECURSIVE SectionCalls(_, _)
SectionCalls(sections, s) ==
    IF s > Len(sections) THEN <<>>
    ELSE [j \in 1..Len(sections[s].files) |->
            [file |-> sections[s].files[j], section |-> sections[s].name,
             sectionIndex |-> s, last |-> j = Len(sections[s].files)]]
         \o SectionCalls(sections, s + 1)

\* lines 588-618: the overwriteFile calls the loops of overwriteFiles make, in
\* order; last marks the call after which the section's record is pushed
OverwriteCalls(fl) ==
    IF Len(fl.sections) > 0
    THEN SectionCalls(fl.sections, 1)
    ELSE [j \in 1..Len(fl.allFiles) |->
            [file |-> fl.allFiles[j], section |-> NoSection,
             sectionIndex |-> 0, last |-> FALSE]]

HasError(errors, file) == \E k \in 1..Len(errors) : errors[k].file = file

CountIf(files, errors, wanted) ==
    Cardinality({j \in 1..Len(files) : HasError(errors, files[j]) = wanted})

\* lines 600-609
SectionStats(section, errors) ==
    [name |-> section.name,
     total |-> Len(section.files),
     processed |-> CountIf(section.files, errors, FALSE),
     skipped |-> CountIf(section.files, errors, TRUE)]

\* lines 288 and 487: the messages of the errors getFileFromBranch and
\* writeFile throw
FetchError(filePath, branch) ==
    [text |-> "File not found in branch", file |-> filePath, branch |-> branch]
WriteError(filePath) ==
    [text |-> "Failed to write file", file |-> filePath, branch |-> <<>>]

\* lines 551-565: the statistics after a successful fetch and write
RecordSuccess(st, fl, filePath, sectionName) ==
    [st EXCEPT
       !.filesProcessed = @ + 1,
       !.binaryFiles = IF IsBinaryFile(filePath) THEN @ + 1 ELSE @,
       !.textFiles = IF IsBinaryFile(filePath) THEN @ ELSE @ + 1,
       !.comments =
          IF \E e \in fl.fileComments : e[1] = filePath
          THEN Append(@, [file |-> filePath,
                          comment |-> (CHOOSE e \in fl.fileComments :
                                         e[1] = filePath)[2],
                          section |-> sectionName])
          ELSE @]

\* as RecordFailure, but the error is recorded without its section
RecordFailure_NoSection(st, filePath, sectionName, message) ==
    [st EXCEPT
       !.filesSkipped = @ + 1,
       !.errors = Append(@, [file |-> filePath, section |-> NoSection,
                             error |-> message])]

\* lines 569-570: the catch block of overwriteFile
RecordFailure(st, filePath, sectionName, message) ==
    [st EXCEPT
       !.filesSkipped = @ + 1,
       !.errors = Append(@, [file |-> filePath, section |-> sectionName,
                             error |-> message])]

\* line 703: this.stats.errors.length > 0
FinalExitCode(st) == IF Len(st.errors) > 0 THEN 1 ELSE 0

----------------------------------------------------------------------------
(* The process: main, run *)

Exit(code, message) ==
    /\ pc' = "exited"
    /\ exitCode' = <<code>>
    /\ fatal' = message

\* lines 725-726 and 734-738: parseArguments; an error is caught by main
Main ==
    /\ pc = "main"
    /\ LET r == ParseArguments(argv)
       IN  CASE r.status = "error" ->
                  /\ Exit(1, r.message)
                  /\ UNCHANGED config
             [] r.status = "exit0" ->
                  /\ Exit(0, "none")
                  /\ UNCHANGED config
             [] OTHER ->
                  /\ pc' = "validateConfig"
                  /\ config' = r.config
                  /\ UNCHANGED <<exitCode, fatal>>
    /\ UNCHANGED <<envVars, parseVars, gitBranch, fileList, stats, fi, attempts,
                   written>>

\* lines 727-729 and 734-738: validateConfig, then the constructor
Validate ==
    /\ pc = "validateConfig"
    /\ IF ValidateConfig(config) # "none"
       THEN Exit(1, ValidateConfig(config))
       ELSE /\ pc' = "ensureCorrectBranch"
            /\ UNCHANGED <<exitCode, fatal>>
    /\ UNCHANGED <<envVars, parseVars, config, gitBranch, fileList, stats, fi,
                   attempts, written>>

\* as EnsureCorrectBranch, but the run goes on from whatever branch is
\* checked out
EnsureCorrectBranch_NoCheckout ==
    /\ pc = "ensureCorrectBranch"
    /\ \/ /\ Exit(1, "Failed to get current branch")
          /\ UNCHANGED gitBranch
       \/ /\ pc' = "getFileList"
          /\ UNCHANGED <<gitBranch, exitCode, fatal>>
    /\ UNCHANGED <<envVars, parseVars, config, fileList, stats, fi, attempts,
                   written>>

\* lines 525-533 and 228-251, the catch of lines 710-718
EnsureCorrectBranch ==
    /\ pc = "ensureCorrectBranch"
    /\ \/ \* git rev-parse fails
          /\ Exit(1, "Failed to get current branch")
          /\ UNCHANGED gitBranch
       \/ \* already on the target branch
          /\ gitBranch = config.targetBranch
          /\ pc' = "getFileList"
          /\ UNCHANGED <<gitBranch, exitCode, fatal>>
       \/ \* git checkout succeeds
          /\ gitBranch # config.targetBranch
          /\ gitBranch' = config.targetBranch
          /\ pc' = "getFileList"
          /\ UNCHANGED <<exitCode, fatal>>
       \/ \* git checkout fails
          /\ gitBranch # config.targetBranch
          /\ Exit(1, "Failed to checkout branch")
          /\ UNCHANGED gitBranch
    /\ UNCHANGED <<envVars, parseVars, config, fileList, stats, fi, attempts,
                   written>>

\* lines 409-413 and 438-446, the catch of lines 710-718: fs.access and
\* fs.readFile
ReadFileList ==
    /\ pc = "getFileList"
    /\ \/ \* fs.access fails with ENOENT
          Exit(1, "File list not found")
       \/ \* fs.access or fs.readFile fails otherwise
          Exit(1, "Failed to read file list")
       \/ \* the document is read
          /\ pc' = "parseFileList"
          /\ UNCHANGED <<exitCode, fatal>>
    /\ UNCHANGED <<envVars, parseVars, config, gitBranch, fileList, stats, fi,
                   attempts, written>>

\* lines 414-437 and 684, the catch of lines 710-718: the document is parsed
ParseFileList ==
    /\ pc = "parseFileList"
    /\ LET parsed == ParseRichFileList(content)
       IN  IF IsEmptyList(parsed)
           THEN /\ Exit(1, "File list is empty or contains no valid file entries")
                /\ UNCHANGED <<fileList, fi>>
           ELSE /\ fileList' = <<parsed>>
                /\ fi' = 1
                /\ pc' = "overwriteFiles"
                /\ UNCHANGED <<exitCode, fatal>>
    /\ UNCHANGED <<envVars, parseVars, config, gitBranch, stats, attempts, written>>

\* lines 540-578: one overwriteFile call of overwriteFiles, and lines 600-610
\* when it is the last of its section
OverwriteFile ==
    /\ pc = "overwriteFiles"
    /\ fi <= Len(OverwriteCalls(fileList[1]))
    /\ LET call == OverwriteCalls(fileList[1])[fi]
           Pushed(st) ==
             IF call.last
             THEN [st EXCEPT !.sections =
                     Append(@, SectionStats(fileList[1].sections[call.sectionIndex],
                                            st.errors))]
             ELSE st
       IN  \/ \* fetched and written
              /\ stats' = Pushed(RecordSuccess(stats, fileList[1], call.file,
                                               call.section))
              /\ written' = Append(written, [file |-> call.file,
                                             branch |-> gitBranch])
              /\ attempts' = Append(attempts, [file |-> call.file,
                                               section |-> call.section,
                                               outcome |-> "ok"])
           \/ \* getFileFromBranch throws
              /\ stats' = Pushed(RecordFailure(stats, call.file, call.section,
                                   FetchError(call.file, config.sourceBranch)))
              /\ attempts' = Append(attempts, [file |-> call.file,
                                               section |-> call.section,
                                               outcome |-> "fetchFailed"])
              /\ UNCHANGED written
           \/ \* writeFile throws
              /\ stats' = Pushed(RecordFailure(stats, call.file, call.section,
                                               WriteError(call.file)))
              /\ attempts' = Append(attempts, [file |-> call.file,
                                               section |-> call.section,
                                               outcome |-> "writeFailed"])
              /\ UNCHANGED written
    /\ fi' = fi + 1
    /\ UNCHANGED <<envVars, parseVars, pc, config, gitBranch, fileList, fatal,
                   exitCode>>

\* lines 689-708: after overwriteFiles, the statistics and the exit code
Finish ==
    /\ pc = "overwriteFiles"
    /\ fi > Len(OverwriteCalls(fileList[1]))
    /\ Exit(FinalExitCode(stats), "none")
    /\ UNCHANGED <<envVars, parseVars, config, gitBranch, fileList, stats, fi,
                   attempts, written>>

Next ==
    \/ Main
    \/ Validate
    \/ EnsureCorrectBranch
    \/ ReadFileList
    \/ ParseFileList
    \/ OverwriteFile
    \/ Finish

----------------------------------------------------------------------------
(* Inputs of a run *)

ArgFileList == <<"-", "f">>
ArgSource == <<"-", "s">>
ArgTarget == <<"-", "t">>
ArgEncoding == <<"-", "e">>
ArgHelp == <<"-", "h">>
ArgUnknown == <<"-", "x">>
ListPath == <<"f", ".", "t", "x", "t">>
BranchMain == <<"m", "a", "i", "n">>
BranchDev == <<"d", "e", "v">>

Branches == {BranchMain, BranchDev}

RunLinePool == {BlankLine, CommentLine, HeaderA, HeaderB, DashFileX, DashBinary,
                DashOnly}

RunDocuments == {JoinLines(ls) : ls \in SeqsUpTo(RunLinePool, MaxRunLines)}

RunArgvs == {<<ArgFileList, ListPath, ArgSource, BranchDev, ArgTarget, BranchMain>>,
             <<ArgHelp>>, <<ArgUnknown>>, <<>>}

ArgPool == {ArgFileList, ArgSource, ArgTarget, ArgEncoding, ArgHelp, ListPath,
            BranchMain, BranchDev}

CLIDocuments == {JoinLines(<<PlainFile, HeaderA, DashBinary>>)}

InitRunVars ==
    /\ lines = <<>>
    /\ i = 1
    /\ result = EmptyResult
    /\ currentSection = 0
    /\ isInSection = FALSE
    /\ pc = "main"
    /\ config = DEFAULT_CONFIG
    /\ fileList = <<>>
    /\ stats = EmptyStats
    /\ fi = 1
    /\ attempts = <<>>
    /\ written = <<>>
    /\ fatal = "none"
    /\ exitCode = <<>>

Init ==
    /\ argv \in RunArgvs
    /\ content \in RunDocuments
    /\ gitBranch \in Branches
    /\ InitRunVars

Spec == Init /\ [][Next]_vars

InitCLI ==
    /\ argv \in SeqsUpTo(ArgPool, MaxArgs)
    /\ content \in CLIDocuments
    /\ gitBranch = BranchDev
    /\ InitRunVars

SpecCLI == InitCLI /\ [][Next]_vars

----------------------------------------------------------------------------
(* The parser alone, one line per step *)

InitParse ==
    /\ argv = <<>>
    /\ content \in Documents
    /\ lines = SplitLines(content)
    /\ i = 1
    /\ result = EmptyResult
    /\ currentSection = 0
    /\ isInSection = FALSE
    /\ pc = "parseRichFileList"
    /\ config = DEFAULT_CONFIG
    /\ gitBranch = BranchMain
    /\ fileList = <<>>
    /\ stats = EmptyStats
    /\ fi = 1
    /\ attempts = <<>>
    /\ written = <<>>
    /\ fatal = "none"
    /\ exitCode = <<>>

\* lines 334-395: one iteration of the loop
ParseLine ==
    /\ pc = "parseRichFileList"
    /\ i <= Len(lines)
    /\ LET st == ProcessLine([result |-> result, currentSection |-> currentSection,
                              isInSection |-> isInSection],
                             lines[i])
       IN  /\ result' = st.result
           /\ currentSection' = st.currentSection
           /\ isInSection' = st.isInSection
    /\ i' = i + 1
    /\ UNCHANGED <<envVars, lines, runVars>>

NextParse == ParseLine

SpecParse == InitParse /\ [][NextParse]_vars

\* the loop of parseRichFileList has run to its end
Parsed == pc = "parseRichFileList" /\ i > Len(lines)

----------------------------------------------------------------------------
(* The lines of a document, as the specification classifies them *)

IsBlankLine(l) == \A k \in 1..Len(l) : IsSpace(l[k])

IsCommentLine(l) == ~IsBlankLine(l) /\ Head(TrimStart(l)) = "#"

IsIgnoredLine(l) == IsBlankLine(l) \/ IsCommentLine(l)

IsFileLine(l) == ~IsIgnoredLine(l) /\ IsFilePath(Trim(l))

IsHeaderLine(l) == ~IsIgnoredLine(l) /\ ~IsFilePath(Trim(l))

PathOf(l) == ExtractEntry(Trim(l)).filePath

CommentOf(l) == ExtractEntry(Trim(l)).comment

\* a file-path line that yields a non-empty path
IsEntryLine(l) == IsFileLine(l) /\ PathOf(l) # <<>>

Range(f) == {f[k] : k \in DOMAIN f}

\* the non-empty paths of the file-path lines of ls, in line order
RECURSIVE PathsInLineOrder(_)
PathsInLineOrder(ls) ==
    IF ls = <<>> THEN <<>>
    ELSE (IF IsEntryLine(Head(ls)) THEN <<PathOf(Head(ls))>> ELSE <<>>)
         \o PathsInLineOrder(Tail(ls))

\* the lines of ls that are neither blank nor comments
RECURSIVE WithoutIgnored(_)
WithoutIgnored(ls) ==
    IF ls = <<>> THEN <<>>
    ELSE (IF IsIgnoredLine(Head(ls)) THEN <<>> ELSE <<Head(ls)>>)
         \o WithoutIgnored(Tail(ls))

\* the index of the nearest section-header line before line k, or 0
HeaderBefore(ls, k) ==
    IF \E h \in 1..(k - 1) : IsHeaderLine(ls[h])
    THEN CHOOSE h \in 1..(k - 1) :
           IsHeaderLine(ls[h]) /\ \A j \in (h + 1)..(k - 1) : ~IsHeaderLine(ls[j])
    ELSE 0

\* 'p (c)' without a leading dash: p ends in a recognized extension, c has no
\* parentheses
IsUndashedCommented(l) ==
    LET t == Trim(l)
        m == CommentMatch(t)
    IN  /\ ~IsIgnoredLine(l)
        /\ ~StartsWith(t, <<"-">>)
        /\ m.matched
        /\ HasFileExtension(Trim(m.group1))
        /\ \A k \in 1..Len(m.group2) : m.group2[k] \notin {"(", ")"}

\* ls with every undashed 'p (c)' line given its leading dash
Dashed(ls) ==
    [k \in 1..Len(ls) |->
        IF IsUndashedCommented(ls[k]) THEN <<"-", " ">> \o Trim(ls[k]) ELSE ls[k]]

\* line k of ls gives path p an inline comment
CommentsPath(ls, k, p) ==
    IsEntryLine(ls[k]) /\ PathOf(ls[k]) = p /\ CommentOf(ls[k]) # <<>>

\* the comment of the last line of ls that gives path p one
LastComment(ls, p) ==
    CommentOf(ls[CHOOSE k \in 1..Len(ls) :
                   /\ CommentsPath(ls, k, p)
                   /\ \A j \in (k + 1)..Len(ls) : ~CommentsPath(ls, j, p)])

----------------------------------------------------------------------------
(* Claims about parseRichFileList, under SpecParse *)

\* C4: in the result every path that follows a section-header line belongs to
\* the section named by the nearest preceding header line, also when that
\* header comes while the open section is still empty.
C4_NearestHeaderOwnsFile ==
    Parsed =>
        \A k \in 1..Len(lines) :
            (IsEntryLine(lines[k]) /\ HeaderBefore(lines, k) # 0) =>
                \E s \in 1..Len(result.sections) :
                    /\ result.sections[s].name = Trim(lines[HeaderBefore(lines, k)])
                    /\ PathOf(lines[k]) \in Range(result.sections[s].files)

\* C5: the line 'p (c)' without a leading dash parses as the dashed line
\* '- p (c)' does: giving every such line of the document its dash leaves the
\* result of the parse unchanged.
C5_UndashedParsesAsDashed ==
    Parsed => result = ParseRichFileList(JoinLines(Dashed(lines)))

\* C7: at every step of the parse, allFiles is exactly the sequence of the
\* non-empty paths of the file-path lines read so far, in line order, with
\* duplicates kept.
C7_AllFilesInLineOrder ==
    pc = "parseRichFileList" =>
        result.allFiles = PathsInLineOrder(SubSeq(lines, 1, i - 1))

\* C7 witness: a parsed document whose flattened list holds a path twice and a
\* different path as well
C7_Witness ==
    /\ Parsed
    /\ Len(result.allFiles) >= 3
    /\ \E j, k \in 1..Len(result.allFiles) :
          j < k /\ result.allFiles[j] = result.allFiles[k]
    /\ Cardinality(Range(result.allFiles)) >= 2

\* C8: the comment map holds at most one comment per path, and a path that is
\* given inline comments on several lines ends with the comment of the last of
\* those lines.
C8_LastCommentWins ==
    /\ \A e1, e2 \in result.fileComments : e1[1] = e2[1] => e1 = e2
    /\ Parsed =>
          \A p \in Range(result.allFiles) :
              (\E k \in 1..Len(lines) : CommentsPath(lines, k, p)) =>
                  <<p, LastComment(lines, p)>> \in result.fileComments

\* C8 witness: a parsed document that gives one path two different comments
C8_Witness ==
    /\ Parsed
    /\ \E j, k \in 1..Len(lines) : \E p \in Range(result.allFiles) :
          /\ j < k
          /\ CommentsPath(lines, j, p)
          /\ CommentsPath(lines, k, p)
          /\ CommentOf(lines[j]) # CommentOf(lines[k])

\* C9: a blank line or a comment line changes nothing in the parser, and the
\* result of parsing a document is the result of parsing it with all its blank
\* and comment lines removed.
C9_IgnoredLinesChangeNothing ==
    /\ [](Parsed => result = ParseRichFileList(JoinLines(WithoutIgnored(lines))))
    /\ [][(pc = "parseRichFileList" /\ i <= Len(lines) /\ IsIgnoredLine(lines[i]))
            => UNCHANGED <<result, currentSection, isInSection>>]_vars

\* C9 witness: a parsed document with a comment line between a run of file
\* lines and the next header, in a result of two sections
C9_Witness ==
    /\ Parsed
    /\ Len(result.sections) = 2
    /\ \E k \in 2..(Len(lines) - 1) :
          /\ IsCommentLine(lines[k])
          /\ IsEntryLine(lines[k - 1])
          /\ IsHeaderLine(lines[k + 1])

----------------------------------------------------------------------------
(* Claims about a run, under Spec *)

FilesOf(log) == [k \in 1..Len(log) |-> log[k].file]

Failed(a) == a.outcome # "ok"

\* the error message overwriteFile catches in attempt a
MessageOf(a) ==
    IF a.outcome = "fetchFailed" THEN FetchError(a.file, config.sourceBranch)
    ELSE WriteError(a.file)

\* the records stats.errors is to hold for the attempts of log
RECURSIVE FailuresOf(_)
FailuresOf(log) ==
    IF log = <<>> THEN <<>>
    ELSE (IF Failed(Head(log))
          THEN <<[file |-> Head(log).file, section |-> Head(log).section,
                  error |-> MessageOf(Head(log))]>>
          ELSE <<>>)
         \o FailuresOf(Tail(log))

\* overwriteFiles has consumed the parsed list and the process has exited
Synced == pc = "exited" /\ fileList # <<>>

\* the process was asked for its help or version text only
HelpOnly == ParseArguments(argv).status = "exit0"

\* C1: when overwriteFiles has consumed a parsed list, every entry of allFiles
\* has had exactly one overwriteFile call, in flattened order.
C1_EveryEntryAttemptedInOrder ==
    Synced => FilesOf(attempts) = fileList[1].allFiles

\* C2: a run exits with code 0 only if every entry of the flattened path list
\* was fetched and written without error, and with code 1 if a file failed or
\* a fatal error occurred.
C2_ExitZeroOnlyOnFullSuccess ==
    /\ (pc = "exited" /\ exitCode = <<0>> /\ ~HelpOnly) =>
          /\ fileList # <<>>
          /\ FilesOf(written) = fileList[1].allFiles
          /\ stats.errors = <<>>
    /\ (pc = "exited" /\ (fatal # "none" \/ \E k \in 1..Len(attempts) :
                                              Failed(attempts[k]))) =>
          exitCode = <<1>>

\* C3: every failed overwriteFile call is recorded in stats.errors with the
\* file's path, its section and the error message, and counted in
\* filesSkipped; the calls that follow it in the processing order are still
\* made, and the process exits only after the last of them.
C3_FailureRecordedRunContinues ==
    /\ stats.errors = FailuresOf(attempts)
    /\ stats.filesSkipped = Cardinality({k \in 1..Len(attempts) : Failed(attempts[k])})
    /\ fileList # <<>> =>
          /\ Len(attempts) = (IF pc = "exited"
                              THEN Len(OverwriteCalls(fileList[1]))
                              ELSE fi - 1)
          /\ \A k \in 1..Len(attempts) :
                /\ attempts[k].file = OverwriteCalls(fileList[1])[k].file
                /\ attempts[k].section = OverwriteCalls(fileList[1])[k].section

\* C3 witness: a finished run in which a fetch failure in a section was
\* followed by a write failure and by a successful call
C3_Witness ==
    /\ Synced
    /\ \E j, k, l \in 1..Len(attempts) :
          /\ j < k /\ k < l
          /\ attempts[j].outcome = "fetchFailed"
          /\ attempts[j].section # NoSection
          /\ attempts[k].outcome = "writeFailed"
          /\ attempts[l].outcome = "ok"

\* C6: a document without a file-path line that yields a non-empty path is an
\* empty list, whatever else it holds: parsing it ends the run with the
\* 'File list is empty' error and exit code 1, and no file is fetched or
\* written.
C6_NoEntriesIsEmptyList ==
    /\ [](\/ /\ attempts = <<>>
              /\ written = <<>>
              /\ fileList = <<>>
              /\ pc # "overwriteFiles"
              /\ (pc = "exited" /\ ~HelpOnly) => exitCode = <<1>>
           \/ PathsInLineOrder(SplitLines(content)) # <<>>)
    /\ [][(pc = "parseFileList" /\ PathsInLineOrder(SplitLines(content)) = <<>>) =>
            /\ pc' = "exited"
            /\ exitCode' = <<1>>
            /\ fatal' = "File list is empty or contains no valid file entries"]_vars

\* C6 witness: a document of two section headers, a comment line and a bullet
\* without a path was read and rejected as empty
C6_Witness ==
    /\ pc = "exited"
    /\ fatal = "File list is empty or contains no valid file entries"
    /\ Cardinality({k \in 1..Len(SplitLines(content)) :
                      IsHeaderLine(SplitLines(content)[k])}) >= 2
    /\ \E k \in 1..Len(SplitLines(content)) : IsCommentLine(SplitLines(content)[k])
    /\ \E k \in 1..Len(SplitLines(content)) : IsFileLine(SplitLines(content)[k])

----------------------------------------------------------------------------
(* Claims about the command line, under SpecCLI *)

ValueOptions == OptFileList \cup OptSource \cup OptTarget \cup OptEncoding

\* a value-taking flag of args is the last argument or is followed by an
\* argument that is itself a flag
FlagWithoutValue(args) ==
    \E k \in 1..Len(args) :
        /\ args[k] \in ValueOptions
        /\ (k = Len(args) \/ StartsWith(args[k + 1], <<"-">>))

\* C10: a value-taking flag that is not followed by its value is a fatal
\* argument error: the process exits with code 1 before any work starts (the
\* next flag is not taken as the value, which would let the run start).
C10_FlagWithoutValueIsFatal ==
    (FlagWithoutValue(argv) /\ ~HelpOnly) =>
        /\ pc \in {"main", "validateConfig", "exited"}
        /\ pc = "exited" => exitCode = <<1>>

\* the errors validateConfig throws for an option that was not given
MissingOptionErrors == {"File list path cannot be empty",
                        "Source branch cannot be empty",
                        "Target branch cannot be empty"}

\* C11: with no arguments, or with only some of the options given, the
\* documented defaults stand in for the missing ones and the run proceeds: a
\* well-formed command line never ends in a missing-option configuration
\* error.
C11_DefaultsFillMissingOptions ==
    ~FlagWithoutValue(argv) =>
        ~(pc = "exited" /\ fatal \in MissingOptionErrors)

RECURSIVE SumOf(_)
SumOf(ns) == IF ns = <<>> THEN 0 ELSE Head(ns) + SumOf(Tail(ns))

\* the sections of the parsed list that hold at least one entry, in order
SectionsWithFiles ==
    SelectSeq(fileList[1].sections, LAMBDA s : s.files # <<>>)

\* the attempts made for the entries of the k-th of those sections
AttemptsOfSection(k) ==
    LET before == SumOf([j \in 1..(k - 1) |-> Len(SectionsWithFiles[j].files)])
    IN  SubSeq(attempts, before + 1, before + Len(SectionsWithFiles[k].files))

Succeeded(log) == Cardinality({j \in 1..Len(log) : ~Failed(log[j])})

\* C13: after a run over a list with sections, each per-section record counts
\* as processed the entries of its section whose attempt succeeded and as
\* skipped those whose attempt failed, and the records add up to the totals
\* filesProcessed and filesSkipped, also when a path occurs more than once.
C13_SectionRecordsMatchAttempts ==
    (Synced /\ fatal = "none" /\ Len(fileList[1].sections) > 0) =>
        /\ Len(stats.sections) = Len(SectionsWithFiles)
        /\ \A k \in 1..Len(stats.sections) :
              /\ stats.sections[k].processed = Succeeded(AttemptsOfSection(k))
              /\ stats.sections[k].skipped =
                    Len(AttemptsOfSection(k)) - Succeeded(AttemptsOfSection(k))
        /\ SumOf([k \in 1..Len(stats.sections) |-> stats.sections[k].processed])
              = stats.filesProcessed
        /\ SumOf([k \in 1..Len(stats.sections) |-> stats.sections[k].skipped])
              = stats.filesSkipped

\* the errors getCurrentBranch and switchToBranch throw
BranchErrors == {"Failed to get current branch", "Failed to checkout branch"}

\* C14: no file is written unless the working tree is on the target branch:
\* the branch check (with the checkout, when needed) comes before the file list
\* is read and before the first overwriteFile, and a run whose branch check or
\* checkout fails ends with exit code 1 without any fetch or write.
C14_WritesOnlyOnTargetBranch ==
    /\ \A k \in 1..Len(written) : written[k].branch = config.targetBranch
    /\ (\/ pc \in {"getFileList", "parseFileList", "overwriteFiles"}
        \/ fileList # <<>>
        \/ attempts # <<>>) => gitBranch = config.targetBranch
    /\ fatal \in BranchErrors =>
          /\ pc = "exited"
          /\ exitCode = <<1>>
          /\ fileList = <<>>
          /\ attempts = <<>>
          /\ written = <<>>

\* C14 witness: a file has been written, on the target branch
C14_Witness ==
    /\ written # <<>>
    /\ gitBranch = config.targetBranch
    /\ written[Len(written)].branch = config.targetBranch

\* the file lists of the sections ss, concatenated in section order
RECURSIVE SectionFiles(_)
SectionFiles(ss) ==
    IF ss = <<>> THEN <<>> ELSE Head(ss).files \o SectionFiles(Tail(ss))

\* the number of entries of ls before its first section-header line
EntriesBeforeFirstHeader(ls) ==
    LET first == IF \E h \in 1..Len(ls) : IsHeaderLine(ls[h])
                 THEN CHOOSE h \in 1..Len(ls) :
                        IsHeaderLine(ls[h]) /\ \A j \in 1..(h - 1) : ~IsHeaderLine(ls[j])
                 ELSE Len(ls) + 1
    IN  Len(PathsInLineOrder(SubSeq(ls, 1, first - 1)))

\* C15: in a parse result only the last section can be empty, and the
\* sections' file lists, concatenated in section order, are the flattened path
\* list without the entries that precede the first section header.
C15_OnlyLastSectionCanBeEmpty ==
    Parsed =>
        /\ \A s \in 1..(Len(result.sections) - 1) : result.sections[s].files # <<>>
        /\ SectionFiles(result.sections) =
              SubSeq(result.allFiles, EntriesBeforeFirstHeader(lines) + 1,
                     Len(result.allFiles))

\* C15 witness: a parsed document with an entry before its first header, a
\* section with a file and an empty last section
C15_Witness ==
    /\ Parsed
    /\ EntriesBeforeFirstHeader(lines) > 0
    /\ Len(result.sections) = 2
    /\ result.sections[1].files # <<>>
    /\ result.sections[2].files = <<>>

=============================================================================
